---- MODULE Spec2Model ----
(***************************************************************************)
(* The MIXO ticket backend: checkout (create-payment), the Mollie payment  *)
(* webhook (fulfilment), QR validation and the admin ticket edit.          *)
(*                                                                         *)
(* The repository holds four versions of the server; `snapshot` says which *)
(* one is deployed:                                                        *)
(*   "json"        src/unnamed/part_004         JSON files as the store    *)
(*   "prisma_sold" src/unnamed/part_002         Prisma, webhook writes sold*)
(*   "prisma"      src/backend/src/server.js    Prisma, lines 169-473      *)
(*   "demo"        src/server.js                stub webhook and validate  *)
(* The two Prisma versions mount src/backend/src/admin.js.                 *)
(*                                                                         *)
(* Node runs one handler at a time and switches handlers only at an await: *)
(* every action below is the code between two awaits of one handler.       *)
(***************************************************************************)
EXTENDS Integers, Sequences, FiniteSets, TLC

\* ------------------------------------------------------------------ bounds
MaxCap == 2          \* capacity (max) of a tier
MaxQty == 2          \* largest quantity of one line item
MaxTime == 1         \* Date.now() takes the values 0..MaxTime
MaxEdits == 1        \* admin update-ticket requests in one run
MaxRequests == 4     \* requests of all kinds in one run

Tiers == <<"EARLY", "STANDARD", "LATE">>      \* event.tickets, in table order
TierIds == {Tiers[k] : k \in 1..Len(Tiers)}
Payments == <<"pay_1", "pay_2">>              \* ids the gateway hands out, in order
PaymentIds == {Payments[k] : k \in 1..Len(Payments)}
Webhooks == {1, 2}                            \* webhook requests of one run
Validates == {1, 2}                           \* validate requests of one run
Checkouts == {1, 2}                           \* create-payment requests
Snapshots == {"json", "prisma_sold", "prisma", "demo"}
Statuses == {"available", "sold-out", "coming-soon", "unavailable"}

\* ------------------------------------------------------------------- state
VARIABLES
    snapshot,       \* the deployed version of the server
    tickets,        \* tier -> [sold, max, status]: ticketsData.json / prisma.ticket
    issuedTickets,  \* code -> [name, paymentId]: issuedTickets.json / prisma.issuedTicket
    usedTickets,    \* code -> used flag: usedTickets.json / issuedTicket.used
    pendingOrders,  \* paymentId -> order: pendingOrders.json
    mollie,         \* paymentId -> [status, metadata]: the payment gateway
    now,            \* Date.now()
    wh,             \* webhook request -> its handler's position and locals
    val,            \* validate request -> its handler's position and response
    cp,             \* create-payment request -> position and response
    edits           \* the answers of the admin update-ticket requests so far

vars == <<snapshot, tickets, issuedTickets, usedTickets, pendingOrders, mollie,
          now, wh, val, cp, edits>>

\* ------------------------------------------------- JS numbers: IEEE doubles
\* A natural number is a sequence of limbs of LimbBits bits, lowest first; a
\* double is m * 2^e with m of at most Precision significant bits.
Precision == 53
LimbBits == 12
Limb == 2 ^ LimbBits

RECURSIVE LimbsOf(_)
LimbsOf(n) == IF n = 0 THEN <<>> ELSE <<n % Limb>> \o LimbsOf(n \div Limb)

RECURSIVE NatOf(_)
NatOf(a) == IF a = <<>> THEN 0 ELSE Head(a) + Limb * NatOf(Tail(a))

Reverse(s) == [i \in 1..Len(s) |-> s[Len(s) + 1 - i]]

\* without the zero limbs at the high end
RECURSIVE Trim(_)
Trim(a) ==
    IF a = <<>> \/ a[Len(a)] # 0 THEN a ELSE Trim(SubSeq(a, 1, Len(a) - 1))

RECURSIVE AddLimbs(_, _, _)
AddLimbs(a, b, carry) ==
    IF a = <<>> /\ b = <<>> THEN (IF carry = 0 THEN <<>> ELSE <<carry>>)
    ELSE LET s == (IF a = <<>> THEN 0 ELSE Head(a))
                  + (IF b = <<>> THEN 0 ELSE Head(b)) + carry
         IN <<s % Limb>> \o AddLimbs(IF a = <<>> THEN <<>> ELSE Tail(a),
                                     IF b = <<>> THEN <<>> ELSE Tail(b), s \div Limb)

\* a times the single limb k
RECURSIVE ScaleLimbs(_, _, _)
ScaleLimbs(a, k, carry) ==
    IF a = <<>> THEN (IF carry = 0 THEN <<>> ELSE <<carry>>)
    ELSE LET s == Head(a) * k + carry
         IN <<s % Limb>> \o ScaleLimbs(Tail(a), k, s \div Limb)

RECURSIVE MulLimbs(_, _)
MulLimbs(a, b) ==
    IF a = <<>> THEN <<>>
    ELSE AddLimbs(ScaleLimbs(b, Head(a), 0), <<0>> \o MulLimbs(Tail(a), b), 0)

\* bit i (from 0) of a, and the number of bits of a
Bit(a, i) ==
    IF i < 0 \/ i \div LimbBits + 1 > Len(a) THEN 0
    ELSE (a[i \div LimbBits + 1] \div (2 ^ (i % LimbBits))) % 2
BitLen(a) ==
    LET t == Trim(a) IN
    IF t = <<>> THEN 0
    ELSE LimbBits * (Len(t) - 1)
         + (CHOOSE n \in 1..LimbBits : 2 ^ (n - 1) <= t[Len(t)] /\ t[Len(t)] < 2 ^ n)

RECURSIVE LimbAt(_, _, _)
\* the limb made of the bits from + k .. from + LimbBits - 1 of a
LimbAt(a, from, k) ==
    IF k = LimbBits THEN 0 ELSE Bit(a, from + k) * (2 ^ k) + LimbAt(a, from, k + 1)

\* a * 2^d for any integer d, the bits below 2^0 cut off
Shift(a, d) ==
    LET n == BitLen(a) + d IN
    IF n <= 0 THEN <<>>
    ELSE [j \in 1..((n + LimbBits - 1) \div LimbBits) |->
             LimbAt(a, LimbBits * (j - 1) - d, 0)]

\* the quotient limbs, highest first, of the limbs a (highest first) by d,
\* after remainder r; and the remainder that is left
RECURSIVE Quotient(_, _, _)
Quotient(a, d, r) ==
    IF a = <<>> THEN <<>>
    ELSE LET v == Limb * r + Head(a) IN <<v \div d>> \o Quotient(Tail(a), d, v % d)

RECURSIVE Remainder(_, _, _)
Remainder(a, d, r) ==
    IF a = <<>> THEN r ELSE Remainder(Tail(a), d, (Limb * r + Head(a)) % d)

\* the double nearest to a * 2^e: round to nearest, ties to even
RoundToDouble(a, e) ==
    LET drop == BitLen(a) - Precision IN
    IF drop <= 0 THEN [m |-> Trim(a), e |-> e]
    ELSE LET high == Shift(a, 0 - drop)
             up == /\ Bit(a, drop - 1) = 1
                   /\ (Bit(a, drop) = 1 \/ \E i \in 0..(drop - 2) : Bit(a, i) = 1)
         IN [m |-> IF up THEN AddLimbs(high, <<1>>, 0) ELSE high, e |-> e + drop]

\* the double a decimal literal or a stored decimal n/d becomes (1.09 is 109/100)
DoubleOf(n, d) ==
    LET guard == 6
        num == Reverse(LimbsOf(n)) \o [i \in 1..guard |-> 0]
        sticky == IF Remainder(num, d, 0) = 0 THEN 0 ELSE 1
        q == Reverse(Quotient(num, d, 0))
    IN RoundToDouble(AddLimbs(Shift(q, 1), <<sticky>>, 0), 0 - (guard * LimbBits + 1))

\* x * y and x + y of JS
Times(x, y) == RoundToDouble(MulLimbs(x.m, y.m), x.e + y.e)
Plus(x, y) ==
    LET e == IF x.e < y.e THEN x.e ELSE y.e
    IN IF x.m = <<>> THEN y
       ELSE IF y.m = <<>> THEN x
       ELSE RoundToDouble(AddLimbs(Shift(x.m, x.e - e), Shift(y.m, y.e - e), 0), e)

\* x.toFixed(2) as a number of cents: the integer n with n/100 nearest to x,
\* the larger of two
ToFixed2(x) ==
    IF x.e >= 0 THEN 100 * NatOf(Shift(x.m, x.e))
    ELSE NatOf(Shift(AddLimbs(MulLimbs(x.m, LimbsOf(200)), Shift(<<1>>, 0 - x.e), 0),
                     x.e - 1))

\* the number 0, and the integer n as a JS number
Zero == [m |-> <<>>, e |-> 0]
Number(n) == DoubleOf(n, 1)

\* ----------------------------------------------------------------- helpers
EmptyFn == [x \in {} |-> TRUE]
NoCode == <<"none", 0, 0>>
UnknownCode == <<"UNKNOWN", 0, 0>>

\* a JS object with key k set to v (obj[k] = v)
Put(f, k, v) == [x \in (DOMAIN f) \cup {k} |-> IF x = k THEN v ELSE f[x]]
\* delete obj[k]
Del(f, k) == [x \in (DOMAIN f) \ {k} |-> f[x]]

\* the prices of the seed in cents (src/unnamed/part_000 lines 14-16), which
\* are the prices the shop page shows and sends along with a line item
ListPrice == [t \in TierIds |-> CASE t = "EARLY" -> 500 [] t = "STANDARD" -> 750 [] OTHER -> 1000]

\* a price in cents an admin puts on a ticket type: 15.50
NewPrice == 1550
\* the prices in cents a run meets
Prices == {ListPrice[t] : t \in TierIds} \cup {NewPrice}

\* ticket.price * t.quantity * 1.09 (backend/src/server.js line 371) and
\* t.quantity * t.price (src/server.js line 98) for the prices and quantities
\* of a run
Taxed ==
    [p \in Prices |-> [q \in 0..MaxQty |->
        Times(Times(DoubleOf(p, 100), Number(q)), DoubleOf(109, 100))]]
Untaxed ==
    [p \in Prices |-> [q \in 0..MaxQty |-> Times(Number(q), DoubleOf(p, 100))]]

Item(t, q) == [id |-> t, quantity |-> q, price |-> ListPrice[t]]
LineItems == {Item(t, q) : t \in TierIds, q \in 1..MaxQty}
\* the line-item lists a client sends: one item, or one unit of each of the two
\* tiers that have capacity left
Orders ==
    {<<a>> : a \in LineItems}
    \cup {<<Item("STANDARD", 1), Item("LATE", 1)>>}

\* a line item that names a ticket type the store does not have, at the price
\* of the cheapest one
UnknownTier == "GHOST"
UnknownItem == [id |-> UnknownTier, quantity |-> 1, price |-> ListPrice["EARLY"]]
\* a line item whose price field is not the shop's: Standard at Early's price
CheapItem == [Item("STANDARD", 1) EXCEPT !.price = ListPrice["EARLY"]]
\* the bodies of create-payment requests: the orders, two with the unknown
\* ticket type, alone and after a line item that passes, one with two line
\* items of one tier, one with a price of the client's own, and one with a
\* quantity of 0
RequestBodies ==
    Orders \cup {<<UnknownItem>>, <<Item("STANDARD", 1), UnknownItem>>,
                 <<Item("LATE", 1), Item("LATE", 1)>>, <<CheapItem>>,
                 <<Item("STANDARD", 0)>>}

\* the requests of S that come before r: requests are numbered in arrival order
Earlier(S, r) == {x \in S : x < r}

\* selectedTickets.find(s => s.id === t)?.quantity || 0
FindQuantity(o, t) ==
    LET hits == {k \in 1..Len(o) : o[k].id = t}
    IN IF hits = {} THEN 0
       ELSE o[CHOOSE k \in hits : \A j \in hits : k <= j].quantity

\* ------------------------------------------------------- handler records
IdleWebhook ==
    [pc |-> "idle", pay |-> "none", result |-> "none", acked |-> FALSE,
     redelivery |-> FALSE, at |-> "none",
     order |-> <<>>, item |-> 0, i |-> 0, code |-> NoCode, made |-> {},
     lTickets |-> EmptyFn, lIssued |-> EmptyFn, lUsed |-> EmptyFn,
     lPending |-> EmptyFn]

\* a finished handler: its locals are gone, what it answered and made stays;
\* at is the await whose call rejected, for a handler that ended so
Finished(h, result) ==
    [h EXCEPT !.pc = "done", !.result = result, !.acked = TRUE,
              !.order = <<>>, !.item = 0, !.i = 0, !.code = NoCode,
              !.lTickets = EmptyFn, !.lIssued = EmptyFn, !.lUsed = EmptyFn,
              !.lPending = EmptyFn]

IdleValidate == [pc |-> "idle", code |-> NoCode, status |-> 0]
\* totalAmount is the handler's running total, read the prices it has read
IdleCheckout ==
    [pc |-> "idle", order |-> <<>>, item |-> 0, pay |-> "none", status |-> 0,
     totalAmount |-> Zero, read |-> <<>>]
\* create-payment has answered: res.status(code), after creating payment pay
Answered(code, pay) ==
    [pc |-> "done", order |-> <<>>, item |-> 0, pay |-> pay, status |-> code,
     totalAmount |-> Zero, read |-> <<>>]

\* -------------------------------------------------------------------- Init
\* The seed (src/unnamed/part_000) scaled to MaxCap: Early Bird is sold out,
\* Standard is on sale with one unit left, Latecomer is announced but not on
\* sale yet.
SeedTickets ==
    [t \in TierIds |->
        CASE t = "EARLY" -> [sold |-> MaxCap, max |-> MaxCap, status |-> "sold-out",
                             price |-> ListPrice[t]]
          [] t = "STANDARD" -> [sold |-> MaxCap - 1, max |-> MaxCap, status |-> "available",
                                price |-> ListPrice[t]]
          [] OTHER -> [sold |-> 0, max |-> MaxCap, status |-> "coming-soon",
                       price |-> ListPrice[t]]]

\* part_004's availability check of one line item against ticketsData
JsonItemFits(data, it) == data[it.id].sold + it.quantity <= data[it.id].max

\* one unit of Standard
LastStandard == <<Item("STANDARD", 1)>>

NoPayment == [status |-> "none", metadata |-> <<>>, amount |-> 0]

Init ==
    /\ snapshot \in Snapshots
    /\ tickets = SeedTickets
    /\ issuedTickets = EmptyFn
    /\ usedTickets = EmptyFn
    /\ now = 0
    /\ wh = [w \in Webhooks |-> IdleWebhook]
    /\ val = [v \in Validates |-> IdleValidate]
    /\ cp = [c \in Checkouts |-> IdleCheckout]
    /\ edits = <<>>
    /\ IF snapshot = "json"
       THEN \* pendingOrders.json as the server finds it on disk (this version's
            \* create-payment never gets to write it), its orders ones the
            \* availability check passes: the first payment for any such order,
            \* the others for Standard's last unit; the gateway knows the payments
            /\ \E o \in {x \in Orders : \A k \in 1..Len(x) : JsonItemFits(tickets, x[k])} :
                 pendingOrders = [p \in PaymentIds |->
                                    IF p = Payments[1] THEN o ELSE LastStandard]
            /\ mollie = [p \in PaymentIds |->
                           IF p \in DOMAIN pendingOrders
                           THEN [status |-> "open", metadata |-> <<>>, amount |-> 0]
                           ELSE NoPayment]
       ELSE /\ pendingOrders = EmptyFn
            /\ mollie = [p \in PaymentIds |-> NoPayment]

\* ------------------------------------------------------- the environment
\* the requests that have arrived so far
Arrived ==
    Cardinality({w \in Webhooks : wh[w].pc # "idle"})
    + Cardinality({v \in Validates : val[v].pc # "idle"})
    + Cardinality({c \in Checkouts : cp[c].pc # "idle"})
    + Len(edits)

\* request r of the requests S arrives: the next of its kind, within the run's
\* number of requests
Arrives(S, pcs, r) ==
    /\ pcs[r].pc = "idle"
    /\ \A x \in Earlier(S, r) : pcs[x].pc # "idle"
    /\ Arrived < MaxRequests

\* a millisecond passes; now is Date.now() counted from the first ticket code
Tick ==
    /\ now < MaxTime
    /\ \E w \in Webhooks : wh[w].code # NoCode \/ wh[w].made # {}
    /\ now' = now + 1
    /\ UNCHANGED <<snapshot, tickets, issuedTickets, usedTickets, pendingOrders,
                   mollie, wh, val, cp, edits>>

\* the buyer pays at the gateway
MolliePaid(p) ==
    /\ mollie[p].status = "open"
    /\ mollie' = [mollie EXCEPT ![p].status = "paid"]
    /\ UNCHANGED <<snapshot, tickets, issuedTickets, usedTickets, pendingOrders,
                   now, wh, val, cp, edits>>

\* the gateway has had a callback for payment p answered after a fulfilment
Redelivered(p) == \E x \in Webhooks : wh[x].pay = p /\ wh[x].result = "Fulfilled"

\* POST /mollie-webhook arrives with {id: p}; the handler runs up to its first
\* await, the fetch of the payment. The Prisma versions and the stub have
\* answered 200 by then. redelivery is the gateway's knowledge of the request,
\* no handler reads it.
WebhookStart(w, p) ==
    /\ Arrives(Webhooks, wh, w)
    /\ LET h == [wh[w] EXCEPT !.pay = p, !.redelivery = Redelivered(p)] IN
       IF snapshot = "demo"
       THEN wh' = [wh EXCEPT ![w] = Finished(h, "Stub")]
       ELSE wh' = [wh EXCEPT ![w] = [h EXCEPT !.pc = "fetch",
                                              !.acked = (snapshot # "json")]]
    /\ UNCHANGED <<snapshot, tickets, issuedTickets, usedTickets, pendingOrders,
                   mollie, now, val, cp, edits>>

\* ------------------------------------------- part_004: the JSON-file server
RECURSIVE NextPos(_, _, _)
\* the loops `for (const t of order.tickets) for (i = 0; i < t.quantity; i++)`:
\* the position after (item k, index i), <<0, 0>> when both loops are over
NextPos(o, k, i) ==
    IF k > Len(o) THEN <<0, 0>>
    ELSE IF i + 1 < o[k].quantity THEN <<k, i + 1>>
    ELSE NextPos(o, k + 1, -1)

\* lines 224-231: one ticket, made in the handler's copies of the files, up to
\* the await of generateTicketPDF
JsonIssueAt(h, pos) ==
    LET t == h.order[pos[1]].id
        ticketNumber == h.lTickets[t].sold + 1
        ticketId == <<t, ticketNumber, now>>
    IN [h EXCEPT !.pc = "pdf", !.item = pos[1], !.i = pos[2], !.code = ticketId,
                 !.lTickets = [@ EXCEPT ![t].sold = @ + 1],
                 !.lIssued = Put(@, ticketId, [name |-> t, paymentId |-> h.pay]),
                 !.lUsed = Put(@, ticketId, FALSE)]

\* JsonAdvance with a handler that, once through, writes an empty
\* pendingOrders.json instead of its copy less its own order
JsonAdvanceClearsPending(w, h, pos) ==
    IF pos = <<0, 0>>
    THEN /\ tickets' = h.lTickets
         /\ issuedTickets' = h.lIssued
         /\ usedTickets' = h.lUsed
         /\ pendingOrders' = EmptyFn
         /\ wh' = [wh EXCEPT ![w] = [h EXCEPT !.pc = "email"]]
    ELSE /\ wh' = [wh EXCEPT ![w] = JsonIssueAt(h, pos)]
         /\ UNCHANGED <<tickets, issuedTickets, usedTickets, pendingOrders>>

\* the loops go on at pos; after them lines 237-241 write the handler's copies
\* over the four files and the handler awaits sendTicketsEmail
JsonAdvance(w, h, pos) ==
    IF pos = <<0, 0>>
    THEN /\ tickets' = h.lTickets
         /\ issuedTickets' = h.lIssued
         /\ usedTickets' = h.lUsed
         /\ pendingOrders' = Del(h.lPending, h.pay)
         /\ wh' = [wh EXCEPT ![w] = [h EXCEPT !.pc = "email"]]
    ELSE /\ wh' = [wh EXCEPT ![w] = JsonIssueAt(h, pos)]
         /\ UNCHANGED <<tickets, issuedTickets, usedTickets, pendingOrders>>

\* lines 205-231: the gateway's answer is in; not paid -> 200, no pending
\* order -> 404, else read the files and start issuing
JsonWebhookFetched(w) ==
    /\ snapshot = "json"
    /\ wh[w].pc = "fetch"
    /\ LET h == wh[w] IN
       IF mollie[h.pay].status # "paid"
       THEN /\ wh' = [wh EXCEPT ![w] = Finished(h, "NotPaid")]
            /\ UNCHANGED <<tickets, issuedTickets, usedTickets, pendingOrders>>
       ELSE IF h.pay \notin DOMAIN pendingOrders
       THEN /\ wh' = [wh EXCEPT ![w] = Finished(h, "NotFound")]
            /\ UNCHANGED <<tickets, issuedTickets, usedTickets, pendingOrders>>
       ELSE LET h1 == [h EXCEPT !.order = pendingOrders[h.pay],
                               !.lPending = pendingOrders,
                               !.lTickets = tickets,
                               !.lIssued = issuedTickets,
                               !.lUsed = usedTickets]
            IN JsonAdvance(w, h1, NextPos(h1.order, 1, -1))
    /\ UNCHANGED <<snapshot, mollie, now, val, cp, edits>>

\* lines 231-241: generateTicketPDF resolved
JsonWebhookPdfDone(w) ==
    /\ snapshot = "json"
    /\ wh[w].pc = "pdf"
    /\ LET h == [wh[w] EXCEPT !.made = @ \cup {wh[w].code}]
       IN JsonAdvance(w, h, NextPos(h.order, h.item, h.i))
    /\ UNCHANGED <<snapshot, mollie, now, val, cp, edits>>

\* lines 243-245: the mail is out, 200
JsonWebhookEmailDone(w) ==
    /\ snapshot = "json"
    /\ wh[w].pc = "email"
    /\ wh' = [wh EXCEPT ![w] = Finished(@, "Fulfilled")]
    /\ UNCHANGED <<snapshot, tickets, issuedTickets, usedTickets, pendingOrders,
                   mollie, now, val, cp, edits>>

\* lines 246-249: the fetch of the payment, generateTicketPDF or sendMail
\* rejected; the catch answers 500
JsonWebhookFailed(w) ==
    /\ snapshot = "json"
    /\ wh[w].pc \in {"fetch", "pdf", "email"}
    /\ wh' = [wh EXCEPT ![w] = [Finished(@, "Error") EXCEPT !.at = wh[w].pc]]
    /\ UNCHANGED <<snapshot, tickets, issuedTickets, usedTickets, pendingOrders,
                   mollie, now, val, cp, edits>>

\* a handler that was in flight when the process stopped: it never answers
Lost(h) == IF h.pc \in {"idle", "done"} THEN h
           ELSE [Finished(h, "Crashed") EXCEPT !.acked = FALSE]

\* the process stops while handler w runs (the host restarts the server, which
\* then serves from the files): every handler in flight is lost. n is the
\* number of the writes of lines 237-239 that w had done; it is 0 unless w had
\* come to the end of its loops
JsonCrash(w, n) ==
    /\ snapshot = "json"
    /\ wh[w].pc \in {"fetch", "pdf", "email"}
    /\ LET h == wh[w] IN
       IF n = 0
       THEN UNCHANGED <<tickets, issuedTickets, usedTickets>>
       ELSE /\ h.pc = "pdf"
            /\ NextPos(h.order, h.item, h.i) = <<0, 0>>
            /\ tickets' = h.lTickets
            /\ issuedTickets' = IF n >= 2 THEN h.lIssued ELSE issuedTickets
            /\ usedTickets' = IF n >= 3 THEN h.lUsed ELSE usedTickets
    /\ wh' = [x \in Webhooks |-> Lost(wh[x])]
    /\ UNCHANGED <<snapshot, pendingOrders, mollie, now, val, cp, edits>>

\* the codes a scanner can present: those in the store, those printed on a
\* ticket PDF, and one that was never issued
Presentable ==
    DOMAIN usedTickets \cup UNION {wh[w].made : w \in Webhooks} \cup {UnknownCode}

\* part_004 lines 255-269: GET /validate/:ticketId, no await in it
JsonValidate(v, ticketId) ==
    /\ snapshot = "json"
    /\ Arrives(Validates, val, v)
    /\ IF ticketId \notin DOMAIN usedTickets
       THEN /\ val' = [val EXCEPT ![v] = [pc |-> "done", code |-> ticketId, status |-> 404]]
            /\ UNCHANGED usedTickets
       ELSE IF usedTickets[ticketId]
       THEN /\ val' = [val EXCEPT ![v] = [pc |-> "done", code |-> ticketId, status |-> 410]]
            /\ UNCHANGED usedTickets
       ELSE /\ usedTickets' = [usedTickets EXCEPT ![ticketId] = TRUE]
            /\ val' = [val EXCEPT ![v] = [pc |-> "done", code |-> ticketId, status |-> 200]]
    /\ UNCHANGED <<snapshot, tickets, issuedTickets, pendingOrders, mollie, now,
                   wh, cp, edits>>

\* ------------------------------ part_002 and backend/src/server.js: Prisma
\* PrismaWebhookFetched without the test of line 411: the handler goes on
\* whatever status the gateway reports
PrismaWebhookFetchedAnyStatus(w) ==
    /\ snapshot \in {"prisma", "prisma_sold"}
    /\ wh[w].pc = "fetch"
    /\ wh' = [wh EXCEPT ![w] = [@ EXCEPT !.pc = "event",
                                         !.order = mollie[wh[w].pay].metadata]]
    /\ UNCHANGED <<snapshot, tickets, issuedTickets, usedTickets, pendingOrders,
                   mollie, now, val, cp, edits>>

\* both: the payment's status is in; not paid -> return, else take the order
\* from the metadata create-payment stored at the gateway and await the event
PrismaWebhookFetched(w) ==
    /\ snapshot \in {"prisma", "prisma_sold"}
    /\ wh[w].pc = "fetch"
    /\ LET h == wh[w] IN
       IF mollie[h.pay].status # "paid"
       THEN wh' = [wh EXCEPT ![w] = Finished(h, "NotPaid")]
       ELSE wh' = [wh EXCEPT ![w] = [h EXCEPT !.pc = "event",
                                              !.order = mollie[h.pay].metadata]]
    /\ UNCHANGED <<snapshot, tickets, issuedTickets, usedTickets, pendingOrders,
                   mollie, now, val, cp, edits>>

RECURSIVE TierPos(_, _, _)
\* backend/src/server.js lines 418-422: `for (const t of event.tickets)` with
\* quantity = selectedTickets.find(...)?.quantity || 0 and the loop over i:
\* the position after (tier k, index i), <<0, 0>> when both loops are over
TierPos(o, k, i) ==
    IF k > Len(Tiers) THEN <<0, 0>>
    ELSE IF i + 1 < FindQuantity(o, Tiers[k]) THEN <<k, i + 1>>
    ELSE TierPos(o, k + 1, -1)

\* backend/src/server.js lines 423-426: the id of the next ticket, up to the
\* await of issuedTicket.create; after the loops the mail, if anything was made
PrismaAdvance(h, pos) ==
    IF pos = <<0, 0>>
    THEN IF h.made # {} THEN [h EXCEPT !.pc = "email"] ELSE Finished(h, "Fulfilled")
    ELSE [h EXCEPT !.pc = "create", !.item = pos[1], !.i = pos[2],
                   !.code = <<Tiers[pos[1]], now, pos[2]>>]

\* backend/src/server.js lines 414-423: the event and its tickets are read
PrismaWebhookEvent(w) ==
    /\ snapshot = "prisma"
    /\ wh[w].pc = "event"
    /\ LET h == [wh[w] EXCEPT !.lTickets = tickets]
       IN wh' = [wh EXCEPT ![w] = PrismaAdvance(h, TierPos(h.order, 1, -1))]
    /\ UNCHANGED <<snapshot, tickets, issuedTickets, usedTickets, pendingOrders,
                   mollie, now, val, cp, edits>>

\* both: issuedTicket.create runs in the database; the code is unique there, a
\* second row with it is refused and the handler ends in its error path
PrismaWebhookCreate(w) ==
    /\ snapshot \in {"prisma", "prisma_sold"}
    /\ wh[w].pc = "create"
    /\ LET h == wh[w] IN
       IF h.code \in DOMAIN issuedTickets
       THEN /\ wh' = [wh EXCEPT ![w] = Finished(h, "Error")]
            /\ UNCHANGED <<issuedTickets, usedTickets>>
       ELSE /\ issuedTickets' = Put(issuedTickets, h.code,
                                    [name |-> h.code[1], paymentId |-> h.pay])
            /\ usedTickets' = Put(usedTickets, h.code, FALSE)
            /\ wh' = [wh EXCEPT ![w] = [h EXCEPT !.pc = "pdf"]]
    /\ UNCHANGED <<snapshot, tickets, pendingOrders, mollie, now, val, cp, edits>>

\* backend/src/server.js lines 427-432: the PDF is written, on to the next
PrismaWebhookPdfDone(w) ==
    /\ snapshot = "prisma"
    /\ wh[w].pc = "pdf"
    /\ LET h == [wh[w] EXCEPT !.made = @ \cup {wh[w].code}]
       IN wh' = [wh EXCEPT ![w] = PrismaAdvance(h, TierPos(h.order, h.item, h.i))]
    /\ UNCHANGED <<snapshot, tickets, issuedTickets, usedTickets, pendingOrders,
                   mollie, now, val, cp, edits>>

\* backend/src/server.js lines 432-443: the mail is out
PrismaWebhookEmailDone(w) ==
    /\ snapshot = "prisma"
    /\ wh[w].pc = "email"
    /\ wh' = [wh EXCEPT ![w] = Finished(@, "Fulfilled")]
    /\ UNCHANGED <<snapshot, tickets, issuedTickets, usedTickets, pendingOrders,
                   mollie, now, val, cp, edits>>

\* PrismaWebhookFailed with a catch that undoes the handler's work: the
\* tickets it created are deleted
PrismaWebhookFailedRollsBack(w) ==
    /\ snapshot \in {"prisma", "prisma_sold"}
    /\ wh[w].pc \in {"fetch", "event", "update", "create", "pdf", "email"}
    /\ wh' = [wh EXCEPT ![w] = [Finished(@, "Error") EXCEPT !.at = wh[w].pc]]
    /\ issuedTickets' = [c \in DOMAIN issuedTickets \ wh[w].made |-> issuedTickets[c]]
    /\ usedTickets' = [c \in DOMAIN usedTickets \ wh[w].made |-> usedTickets[c]]
    /\ UNCHANGED <<snapshot, tickets, pendingOrders, mollie, now, val, cp, edits>>

\* both: an awaited call rejected (the fetch of the payment, a database call,
\* generateTicketPDF, sendMail); backend/src/server.js logs it (lines 444-446),
\* part_002 has no catch and the handler just ends
PrismaWebhookFailed(w) ==
    /\ snapshot \in {"prisma", "prisma_sold"}
    /\ wh[w].pc \in {"fetch", "event", "update", "create", "pdf", "email"}
    /\ wh' = [wh EXCEPT ![w] = [Finished(@, "Error") EXCEPT !.at = wh[w].pc]]
    /\ UNCHANGED <<snapshot, tickets, issuedTickets, usedTickets, pendingOrders,
                   mollie, now, val, cp, edits>>

\* part_002 lines 179-186: the next line item, up to the await of the update
\* of its tier's sold count; after the last one the handler is through
SoldAdvance(h, k) ==
    IF k > Len(h.order) THEN Finished(h, "Fulfilled")
    ELSE [h EXCEPT !.pc = "update", !.item = k, !.i = 0, !.code = NoCode]

\* part_002 lines 174-186: the event and its tickets are read
PrismaSoldWebhookEvent(w) ==
    /\ snapshot = "prisma_sold"
    /\ wh[w].pc = "event"
    /\ wh' = [wh EXCEPT ![w] = SoldAdvance([@ EXCEPT !.lTickets = tickets], 1)]
    /\ UNCHANGED <<snapshot, tickets, issuedTickets, usedTickets, pendingOrders,
                   mollie, now, val, cp, edits>>

\* part_002 line 185: the value ticket.update writes
SoldAfter(dbTicket, quantity) == dbTicket.sold + quantity

\* part_002 lines 183-191: ticket.update runs in the database with the sold
\* count of the event read before; then the first code of the item
PrismaSoldWebhookUpdate(w) ==
    /\ snapshot = "prisma_sold"
    /\ wh[w].pc = "update"
    /\ LET h == wh[w]
           t == h.order[h.item]
       IN /\ tickets' = [tickets EXCEPT ![t.id].sold = SoldAfter(h.lTickets[t.id], t.quantity)]
          /\ wh' = [wh EXCEPT ![w] =
                      IF t.quantity > 0
                      THEN [h EXCEPT !.pc = "create", !.i = 0, !.code = <<t.id, now, 0>>]
                      ELSE SoldAdvance(h, h.item + 1)]
    /\ UNCHANGED <<snapshot, issuedTickets, usedTickets, pendingOrders, mollie,
                   now, val, cp, edits>>

\* part_002 lines 188-203: the PDF is written, on to the next code or item
PrismaSoldWebhookPdfDone(w) ==
    /\ snapshot = "prisma_sold"
    /\ wh[w].pc = "pdf"
    /\ LET h == [wh[w] EXCEPT !.made = @ \cup {wh[w].code}]
           t == h.order[h.item]
       IN wh' = [wh EXCEPT ![w] =
                   IF h.i + 1 < t.quantity
                   THEN [h EXCEPT !.pc = "create", !.i = h.i + 1,
                                  !.code = <<t.id, now, h.i + 1>>]
                   ELSE SoldAdvance(h, h.item + 1)]
    /\ UNCHANGED <<snapshot, tickets, issuedTickets, usedTickets, pendingOrders,
                   mollie, now, val, cp, edits>>

\* both (part_002 lines 209-222, backend/src/server.js lines 452-459):
\* GET /validate/:code, findUnique runs in the database; 404, 410, or the
\* handler goes on to await the update
PrismaValidateRead(v, ticketId) ==
    /\ snapshot \in {"prisma", "prisma_sold"}
    /\ Arrives(Validates, val, v)
    /\ val' = [val EXCEPT ![v] =
                 IF ticketId \notin DOMAIN usedTickets
                 THEN [pc |-> "done", code |-> ticketId, status |-> 404]
                 ELSE IF usedTickets[ticketId]
                 THEN [pc |-> "done", code |-> ticketId, status |-> 410]
                 ELSE [pc |-> "update", code |-> ticketId, status |-> 0]]
    /\ UNCHANGED <<snapshot, tickets, issuedTickets, usedTickets, pendingOrders,
                   mollie, now, wh, cp, edits>>

\* both (part_002 lines 224-229, backend/src/server.js lines 461-462):
\* issuedTicket.update runs in the database, then 200
PrismaValidateUpdate(v) ==
    /\ snapshot \in {"prisma", "prisma_sold"}
    /\ val[v].pc = "update"
    /\ usedTickets' = [usedTickets EXCEPT ![val[v].code] = TRUE]
    /\ val' = [val EXCEPT ![v] = [@ EXCEPT !.pc = "done", !.status = 200]]
    /\ UNCHANGED <<snapshot, tickets, issuedTickets, pendingOrders, mollie, now,
                   wh, cp, edits>>

\* src/server.js lines 171-176: the stub answers 200 whatever the code
DemoValidate(v, ticketId) ==
    /\ snapshot = "demo"
    /\ Arrives(Validates, val, v)
    /\ val' = [val EXCEPT ![v] = [pc |-> "done", code |-> ticketId, status |-> 200]]
    /\ UNCHANGED <<snapshot, tickets, issuedTickets, usedTickets, pendingOrders,
                   mollie, now, wh, cp, edits>>

\* ------------------------------------------------------------ create-payment
\* the availability check of one line item, version by version:
\* backend/src/server.js line 365, part_002 line 128, part_004 line 152,
\* src/server.js line 95; TRUE when the item is refused
ItemRefused(it) ==
    LET ticket == tickets[it.id] IN
    IF it.id \notin TierIds
    THEN \* findUnique gives null and the Prisma versions answer "Ticket not
         \* found" (backend/src/server.js line 362, part_002 line 127); in the
         \* others ticketsData[t.name] is undefined: part_004 tests against
         \* Infinity, src/server.js against undefined, and both go on
         snapshot \in {"prisma", "prisma_sold"}
    ELSE IF snapshot = "prisma"
    THEN ticket.status # "available" \/ ticket.sold + it.quantity > ticket.max
    ELSE ticket.sold + it.quantity > ticket.max

\* the gateway's next payment id
FreeIds == {k \in 1..Len(Payments) : mollie[Payments[k]].status = "none"}
NextId == Payments[CHOOSE k \in FreeIds : \A j \in FreeIds : k <= j]

\* Prisma versions: line item k is read and checked (findUnique, then the
\* test); refused -> 400; after the last item the payment is made at the gateway
\* with the order as its metadata
CheckItem(c, o, k) ==
    LET ticket == tickets[o[k].id]
        \* totalAmount += ticket.price * t.quantity * 1.09
        totalAmount == Plus(cp[c].totalAmount, Taxed[ticket.price][o[k].quantity])
        read == Append(cp[c].read, ticket.price)
    IN
    IF ItemRefused(o[k])
    THEN /\ cp' = [cp EXCEPT ![c] = Answered(400, "none")]
         /\ UNCHANGED mollie
    ELSE IF k < Len(o)
    THEN /\ cp' = [cp EXCEPT ![c] = [pc |-> "check", order |-> o, item |-> k + 1,
                                       pay |-> "none", status |-> 0,
                                       totalAmount |-> totalAmount, read |-> read]]
         /\ UNCHANGED mollie
    ELSE /\ FreeIds # {}
         /\ mollie' = [mollie EXCEPT ![NextId] = [status |-> "open", metadata |-> o,
                                                   amount |-> ToFixed2(totalAmount)]]
         /\ cp' = [cp EXCEPT ![c] = [pc |-> "gateway", order |-> o, item |-> 0,
                                       pay |-> NextId, status |-> 0,
                                       totalAmount |-> totalAmount, read |-> read]]

RECURSIVE ClientTotal(_, _)
\* src/server.js lines 93-99 (part_004 lines 150-156): the total of the prices
\* the request carries, totalAmount += t.quantity * t.price for the first k items
ClientTotal(o, k) ==
    IF k = 0 THEN Zero
    ELSE Plus(ClientTotal(o, k - 1), Untaxed[o[k].price][o[k].quantity])

\* POST /create-payment arrives with the line items o
CreatePayment(c, o) ==
    /\ Arrives(Checkouts, cp, c)
    /\ CASE snapshot \in {"prisma", "prisma_sold"} -> CheckItem(c, o, 1)
         [] snapshot = "json" ->
              \* part_004 lines 150-167: the loop over the file's counts, 400 on
              \* the first item that does not fit; else totalAmount, a string
              \* since line 157, has no toFixed at line 167: the catch answers
              \* 500 and the gateway is never asked
              /\ cp' = [cp EXCEPT ![c] =
                          IF \E k \in 1..Len(o) : ItemRefused(o[k])
                          THEN Answered(400, "none") ELSE Answered(500, "none")]
              /\ UNCHANGED mollie
         [] OTHER ->
              \* src/server.js lines 93-117
              IF \E k \in 1..Len(o) : ItemRefused(o[k])
              THEN /\ cp' = [cp EXCEPT ![c] = Answered(400, "none")]
                   /\ UNCHANGED mollie
              ELSE /\ FreeIds # {}
                   /\ mollie' = [mollie EXCEPT ![NextId] =
                                   [status |-> "open", metadata |-> <<>>,
                                    amount |-> ToFixed2(ClientTotal(o, Len(o)))]]
                   /\ cp' = [cp EXCEPT ![c] = [pc |-> "gateway", order |-> o, item |-> 0,
                                                 pay |-> NextId, status |-> 0,
                                                 totalAmount |-> ClientTotal(o, Len(o)),
                                                 read |-> <<>>]]
    /\ UNCHANGED <<snapshot, tickets, issuedTickets, usedTickets, pendingOrders,
                   now, wh, val, edits>>

\* Prisma versions: the next line item of a request is read and checked
CreatePaymentCheck(c) ==
    /\ cp[c].pc = "check"
    /\ CheckItem(c, cp[c].order, cp[c].item)
    /\ UNCHANGED <<snapshot, tickets, issuedTickets, usedTickets, pendingOrders,
                   now, wh, val, edits>>

\* CreatePaymentRespond of a create-payment that reserves: it adds the order's
\* quantities to the sold counts before it answers
CreatePaymentRespondReserves(c) ==
    /\ cp[c].pc = "gateway"
    /\ cp' = [cp EXCEPT ![c] = Answered(200, cp[c].pay)]
    /\ tickets' = [t \in TierIds |->
                     [tickets[t] EXCEPT !.sold = @ + FindQuantity(cp[c].order, t)]]
    /\ UNCHANGED <<snapshot, issuedTickets, usedTickets, pendingOrders,
                   mollie, now, wh, val, edits>>

\* the gateway's answer is in: the checkout URL goes to the client
CreatePaymentRespond(c) ==
    /\ cp[c].pc = "gateway"
    /\ cp' = [cp EXCEPT ![c] = Answered(200, cp[c].pay)]
    /\ UNCHANGED <<snapshot, tickets, issuedTickets, usedTickets, pendingOrders,
                   mollie, now, wh, val, edits>>

\* ---------------------------------------------------- admin.js: update-ticket
\* the bodies of update-ticket requests: a new max, a new status or a new price
TicketEdits ==
    {[max |-> m] : m \in 0..MaxCap} \cup {[status |-> st] : st \in Statuses}
    \cup {[price |-> NewPrice]}

\* a field the request leaves out is undefined, and Prisma leaves the column
Given(data, field, old) == IF field \in DOMAIN data THEN data[field] ELSE old

\* admin.js lines 10-13: what checkAdmin sends for the password of a request:
\* 403 when it is missing or wrong, nothing otherwise
Passwords == {"ADMIN_PASS", "wrong", "none"}
CheckAdmin(pass) == IF pass = "ADMIN_PASS" THEN 0 ELSE 403

\* AdminUpdateTicket with an update that writes the sold count as well: it
\* starts the tier's count again
AdminUpdateTicketWritesSold(t, data, pass) ==
    /\ snapshot \in {"prisma", "prisma_sold"}
    /\ Len(edits) < MaxEdits
    /\ Arrived < MaxRequests
    /\ edits' = Append(edits, IF CheckAdmin(pass) = 403 THEN 403 ELSE 200)
    /\ tickets' = [tickets EXCEPT ![t] = [sold |-> 0,
                                          max |-> Given(data, "max", @.max),
                                          status |-> Given(data, "status", @.status),
                                          price |-> Given(data, "price", @.price)]]
    /\ UNCHANGED <<snapshot, issuedTickets, usedTickets, pendingOrders, mollie,
                   now, wh, val, cp>>

\* admin.js lines 23-35: checkAdmin answers 403 to a wrong password but does
\* not end the handler, so ticket.update runs for every request with a
\* ticketId; the client has the first answer sent, 403, or else the 200 of
\* line 33
AdminUpdateTicket(t, data, pass) ==
    /\ snapshot \in {"prisma", "prisma_sold"}
    /\ Len(edits) < MaxEdits
    /\ Arrived < MaxRequests
    /\ edits' = Append(edits, IF CheckAdmin(pass) = 403 THEN 403 ELSE 200)
    /\ tickets' = [tickets EXCEPT ![t] = [sold |-> @.sold,
                                          max |-> Given(data, "max", @.max),
                                          status |-> Given(data, "status", @.status),
                                          price |-> Given(data, "price", @.price)]]
    /\ UNCHANGED <<snapshot, issuedTickets, usedTickets, pendingOrders, mollie,
                   now, wh, val, cp>>

\* ------------------------------------------------------------------ Next
Environment ==
    \/ Tick
    \/ \E p \in PaymentIds : MolliePaid(p)

Checkout ==
    \E c \in Checkouts :
       \/ \E o \in RequestBodies : CreatePayment(c, o)
       \/ CreatePaymentCheck(c)
       \/ CreatePaymentRespond(c)

WebhookArrives == \E w \in Webhooks, p \in PaymentIds : WebhookStart(w, p)

JsonWebhook ==
    \E w \in Webhooks :
       \/ JsonWebhookFetched(w)
       \/ JsonWebhookPdfDone(w)
       \/ JsonWebhookEmailDone(w)
       \/ JsonWebhookFailed(w)
       \/ \E n \in 0..3 : JsonCrash(w, n)

PrismaWebhook ==
    \E w \in Webhooks :
       \/ PrismaWebhookFetched(w)
       \/ PrismaWebhookEvent(w)
       \/ PrismaWebhookCreate(w)
       \/ PrismaWebhookPdfDone(w)
       \/ PrismaWebhookEmailDone(w)
       \/ PrismaWebhookFailed(w)

PrismaSoldWebhook ==
    \E w \in Webhooks :
       \/ PrismaWebhookFetched(w)
       \/ PrismaSoldWebhookEvent(w)
       \/ PrismaSoldWebhookUpdate(w)
       \/ PrismaWebhookCreate(w)
       \/ PrismaSoldWebhookPdfDone(w)
       \/ PrismaWebhookFailed(w)

PrismaValidate ==
    \E v \in Validates :
       \/ \E c \in Presentable : PrismaValidateRead(v, c)
       \/ PrismaValidateUpdate(v)

Admin ==
    \E t \in TierIds, data \in TicketEdits, pass \in Passwords :
        AdminUpdateTicket(t, data, pass)

\* src/unnamed/part_004
NextJson ==
    \/ Environment
    \/ \E c \in Checkouts, o \in RequestBodies : CreatePayment(c, o)
    \/ WebhookArrives
    \/ JsonWebhook
    \/ \E v \in Validates : \E c \in Presentable : JsonValidate(v, c)

\* src/backend/src/server.js with admin.js
NextPrisma ==
    \/ Environment
    \/ Checkout
    \/ WebhookArrives
    \/ PrismaWebhook
    \/ PrismaValidate
    \/ Admin

\* src/unnamed/part_002 with admin.js
NextPrismaSold ==
    \/ Environment
    \/ Checkout
    \/ WebhookArrives
    \/ PrismaSoldWebhook
    \/ PrismaValidate
    \/ Admin

\* the Prisma versions without the admin router: the public endpoints
NextPrismaPublic ==
    \/ Environment
    \/ Checkout
    \/ WebhookArrives
    \/ PrismaWebhook
    \/ PrismaValidate

NextPrismaSoldPublic ==
    \/ Environment
    \/ Checkout
    \/ WebhookArrives
    \/ PrismaSoldWebhook
    \/ PrismaValidate

\* src/server.js
NextDemo ==
    \/ \E p \in PaymentIds : MolliePaid(p)
    \/ \E c \in Checkouts :
          \/ \E o \in RequestBodies : CreatePayment(c, o)
          \/ CreatePaymentRespond(c)
    \/ WebhookArrives
    \/ \E v \in Validates : \E c \in Presentable : DemoValidate(v, c)

Next ==
    \/ Environment
    \/ Checkout
    \/ WebhookArrives
    \/ JsonWebhook
    \/ \E v \in Validates : \E c \in Presentable : JsonValidate(v, c)
    \/ \E w \in Webhooks :
          \/ PrismaWebhookFetched(w)
          \/ PrismaWebhookEvent(w)
          \/ PrismaWebhookCreate(w)
          \/ PrismaWebhookPdfDone(w)
          \/ PrismaWebhookEmailDone(w)
          \/ PrismaWebhookFailed(w)
          \/ PrismaSoldWebhookEvent(w)
          \/ PrismaSoldWebhookUpdate(w)
          \/ PrismaSoldWebhookPdfDone(w)
    \/ PrismaValidate
    \/ \E v \in Validates : \E c \in Presentable : DemoValidate(v, c)
    \/ Admin

InitJson == Init /\ snapshot = "json"
InitPrisma == Init /\ snapshot = "prisma"
InitPrismaSold == Init /\ snapshot = "prisma_sold"
InitDemo == Init /\ snapshot = "demo"

\* every version of the server
Spec == Init /\ [][Next]_vars
SpecJson == InitJson /\ [][NextJson]_vars
SpecPrisma == InitPrisma /\ [][NextPrisma]_vars
SpecPrismaSold == InitPrismaSold /\ [][NextPrismaSold]_vars
SpecDemo == InitDemo /\ [][NextDemo]_vars
\* runs of the Prisma versions in which no admin request arrives
SpecPrismaPublic == InitPrisma /\ [][NextPrismaPublic]_vars
SpecPrismaSoldPublic == InitPrismaSold /\ [][NextPrismaSoldPublic]_vars

\* part_004 and backend/src/server.js (with admin.js) side by side
InitJsonPrisma == InitJson \/ InitPrisma
NextJsonPrisma == NextJson \/ NextPrisma
SpecJsonPrisma == InitJsonPrisma /\ [][NextJsonPrisma]_vars
\* the same two versions, customer and gateway requests only
NextJsonPrismaPublic == NextJson \/ NextPrismaPublic
SpecJsonPrismaPublic == InitJsonPrisma /\ [][NextJsonPrismaPublic]_vars

\* the gateway has the success answer (2xx) of callback w: the Prisma versions
\* and the stub answer 200 first, part_004 answers 500 from its catch and 404
\* for an unknown payment
AckedOk(w) ==
    wh[w].acked /\ ~(snapshot = "json" /\ wh[w].result \in {"Error", "NotFound"})

\* the gateway's retry policy: it calls the webhook for a paid payment, and
\* again after a call that ended without a success answer, until it has one
GatewayDelivers(w, p) ==
    /\ mollie[p].status = "paid"
    /\ \A x \in Webhooks : wh[x].pay = p => (wh[x].pc = "done" /\ ~AckedOk(x))
    /\ WebhookStart(w, p)

\* src/backend/src/server.js called by a gateway that follows its retry policy;
\* Node runs every handler whose awaited call has settled
NextPrismaLive ==
    \/ Environment
    \/ Checkout
    \/ \E w \in Webhooks, p \in PaymentIds : GatewayDelivers(w, p)
    \/ PrismaWebhook
    \/ PrismaValidate
SpecPrismaLive == InitPrisma /\ [][NextPrismaLive]_vars /\ WF_vars(NextPrismaLive)

\* src/unnamed/part_004 under Node's scheduling: a webhook handler goes on once
\* the promise it awaits has settled; whether a customer pays, and which
\* requests arrive, is for the customers and the gateway to decide
SpecJsonLive == InitJson /\ [][NextJson]_vars /\ WF_vars(JsonWebhook)

\* ------------------------------------------------------------------ claims
\* the ticket records of tier t in the store
IssuedFor(t) == {c \in DOMAIN issuedTickets : issuedTickets[c].name = t}
\* the webhook requests that ended in a fulfilment with a ticket of tier t
FulfilledWith(t) ==
    {w \in Webhooks : wh[w].result = "Fulfilled" /\ \E c \in wh[w].made : c[1] = t}

\* C1: for every tier, in every reachable state, 0 <= soldCount <= capacity.
C1_SoldWithinCapacity ==
    \A t \in TierIds : 0 <= tickets[t].sold /\ tickets[t].sold <= tickets[t].max

\* C2: for every tier the tickets ever issued (those the seed counts as sold
\* and those issued since) never exceed the tier's capacity.
C2_IssuedWithinCapacity ==
    \A t \in TierIds :
        SeedTickets[t].sold + Cardinality(IssuedFor(t)) <= tickets[t].max

\* C3: of the callbacks that each commit a unit of a tier that had one unit
\* left (soldCount = capacity - 1), exactly one succeeds: no two of them end in
\* a fulfilment.
C3_OneReserveWins ==
    \A t \in TierIds :
        SeedTickets[t].sold = SeedTickets[t].max - 1
            => Cardinality(FulfilledWith(t)) <= 1

\* C4: the callbacks for one paymentId, in any interleaving, give one fulfilled
\* transition and one set of tickets: at most one of them ends in a fulfilment
\* and at most one of them makes tickets.
C4_FulfilledOnce ==
    \A p \in PaymentIds :
        /\ Cardinality({w \in Webhooks : wh[w].pay = p /\ wh[w].result = "Fulfilled"}) <= 1
        /\ Cardinality({w \in Webhooks : wh[w].pay = p /\ wh[w].made # {}}) <= 1

\* C5: a callback delivered again after the first one for its paymentId has
\* completed a fulfilment is a no-op: no step of its handler changes a sold
\* count or the issued tickets.
C5_RedeliveryIsNoOp ==
    [][\A w \in Webhooks :
          (wh[w].redelivery /\ wh'[w] # wh[w])
              => (tickets' = tickets /\ issuedTickets' = issuedTickets)]_vars

\* C6: of two scanners that submit the same unused code, exactly one is
\* answered 200: never are two validate requests for one code both answered 200.
C6_OneScannerWins ==
    \A v1, v2 \in Validates :
        (v1 # v2 /\ val[v1].code = val[v2].code /\ val[v1].status = 200)
            => val[v2].status # 200

C8_ValidateFollowsStore ==
    [][\A v \in Validates :
          (val[v].pc = "idle" /\ val'[v].pc # "idle")
              => LET c == val'[v].code IN
                 IF c \notin DOMAIN usedTickets THEN val'[v].status = 404
                 ELSE IF usedTickets[c] THEN val'[v].status = 410
                 ELSE \/ val'[v].status = 200 /\ usedTickets'[c]
                      \/ val'[v].pc = "update"]_vars

\* C9: a tier whose soldCount equals its capacity has status sold-out, and in
\* that state no reserve succeeds: its soldCount does not grow.
C9_SoldOutAtCapacity ==
    [][\A t \in TierIds :
          /\ tickets'[t].sold = tickets'[t].max => tickets'[t].status = "sold-out"
          /\ tickets[t].sold = tickets[t].max => tickets'[t].sold <= tickets[t].sold]_vars

\* C10: create-payment goes on towards the gateway past a line item only if
\* the item's tier is available and has room for the quantity; every other
\* item is refused before the gateway is asked.
C10_RefusedBeforeGateway ==
    [][\A c \in Checkouts :
          (/\ cp[c].pc \in {"idle", "check"}
           /\ cp'[c] # cp[c]
           /\ cp'[c].pc \in {"check", "gateway"})
              => LET o == cp'[c].order
                     checked == IF cp[c].pc = "check" THEN {cp[c].item}
                                ELSE IF snapshot = "demo" THEN 1..Len(o) ELSE {1}
                 IN \A k \in checked :
                       /\ tickets[o[k].id].status = "available"
                       /\ tickets[o[k].id].sold + o[k].quantity <= tickets[o[k].id].max]_vars

RECURSIVE TaxedTotal(_, _, _)
\* the sum over the first k line items of o of unitPrice x quantity x 1.09, in
\* hundredths of a cent, for the unit prices (in cents) of the sequence prices
TaxedTotal(o, prices, k) ==
    IF k = 0 THEN 0
    ELSE TaxedTotal(o, prices, k - 1) + prices[k] * o[k].quantity * 109

\* hundredths of a cent rounded to cents
RoundedCents(x) == (x + 50) \div 100

\* C11: the amount create-payment requests from the gateway is the sum over the
\* line items of stored unit price x quantity x 1.09, rounded to 2 decimals.
C11_AmountIsTaxedTotal ==
    [][\A c \in Checkouts :
          (cp[c].pc # "gateway" /\ cp'[c].pc = "gateway")
              => LET o == cp'[c].order
                     prices == IF snapshot \in {"prisma", "prisma_sold"} THEN cp'[c].read
                               ELSE [k \in 1..Len(o) |-> tickets[o[k].id].price]
                 IN mollie'[cp'[c].pay].amount
                       = RoundedCents(TaxedTotal(o, prices, Len(o)))]_vars

\* C12: a payment callback changes state only when the gateway reports the
\* payment as paid: for any other status the handler ends at the status test,
\* it makes no ticket, and the sold counts, the issued and used tickets and the
\* pending orders are as before, so that a later callback finds the order.
C12_OnlyPaidChangesState ==
    [][\A w \in Webhooks :
          (wh'[w] # wh[w] /\ mollie[wh'[w].pay].status # "paid")
              => /\ wh'[w].pc \in {"fetch", "done"}
                 /\ wh'[w].result \in {"none", "NotPaid", "Stub", "Error", "Crashed"}
                 /\ wh'[w].made = {}
                 /\ wh'[w].result # "Crashed"
                       => UNCHANGED <<tickets, issuedTickets, usedTickets, pendingOrders>>]_vars

\* a callback found the payment not paid, and a later one for the same payment
\* fulfilled the order
C12_RetriedAfterNotPaid ==
    \E w1, w2 \in Webhooks :
        /\ w1 < w2
        /\ wh[w1].result = "NotPaid"
        /\ wh[w2].pay = wh[w1].pay
        /\ wh[w2].result = "Fulfilled"
        /\ wh[w2].made # {}

Stored(w) == wh[w].pc = "email" \/ wh[w].result = "Fulfilled"

C15_AckAfterGate ==
    \A w \in Webhooks : wh[w].acked => wh[w].pc \notin {"idle", "fetch"}

\* C16: every paid payment whose callback the gateway delivers, and delivers
\* again until it is answered with success, eventually has a ticket issued,
\* also when an external call of a callback fails.
C16_PaidIsEventuallyIssued ==
    \A p \in PaymentIds :
        (\E w \in Webhooks : wh[w].pay = p /\ wh[w].pc # "idle")
            ~> (\E c \in DOMAIN issuedTickets : issuedTickets[c].paymentId = p)

RECURSIVE OrderQuantity(_)
\* the number of tickets of the order o
OrderQuantity(o) == IF o = <<>> THEN 0 ELSE Head(o).quantity + OrderQuantity(Tail(o))

\* the records of the tickets issued for payment p in the files f (issued) and
\* u (used)
Recorded(f, u, p) == {c \in DOMAIN f \cap DOMAIN u : f[c].paymentId = p}

C18_EmailFailureKeepsIssuance ==
    [][\A w \in Webhooks :
          (wh[w].pc = "email" /\ wh'[w].result = "Error")
              => /\ UNCHANGED <<tickets, issuedTickets, usedTickets, pendingOrders>>
                 /\ wh'[w].made = wh[w].made]_vars

\* the email of a callback failed, and a ticket it issued is in the store and
\* was accepted at the door
C18_ValidatedAfterEmailFailed ==
    \E w \in Webhooks : \E v \in Validates :
        /\ wh[w].result = "Error"
        /\ wh[w].at = "email"
        /\ val[v].code \in wh[w].made
        /\ val[v].status = 200
        /\ val[v].code \in DOMAIN issuedTickets
        /\ issuedTickets[val[v].code].paymentId = wh[w].pay
        /\ usedTickets[val[v].code]

\* C19: when create-payment answers with the checkout URL, a pending order
\* keyed by the gateway's payment id and holding the request's line items is
\* in the store.
C19_PendingBeforeCheckoutUrl ==
    [][\A c \in Checkouts :
          (cp[c].status # 200 /\ cp'[c].status = 200)
              => /\ cp'[c].pay \in DOMAIN pendingOrders'
                 /\ pendingOrders'[cp'[c].pay] = cp[c].order]_vars

\* C20: create-payment never reserves: no step of a create-payment request,
\* accepted or rejected, changes the sold count or the status of a tier.
C20_CreatePaymentReservesNothing ==
    [][(cp' # cp)
          => \A t \in TierIds : /\ tickets'[t].sold = tickets[t].sold
                                /\ tickets'[t].status = tickets[t].status]_vars

\* one create-payment request was accepted and another one rejected
C20_AcceptedAndRejected ==
    \E c1, c2 \in Checkouts :
        /\ cp[c1].status = 200
        /\ cp[c1].pay \in PaymentIds
        /\ mollie[cp[c1].pay].status # "none"
        /\ cp[c2].status = 400

\* C21: create-payment rejects a line item that names a ticket type which does
\* not exist and does not go to the gateway for it: no request with such an
\* item gets as far as the gateway, and the handler that comes to such an item
\* answers 400 and makes no payment.
C21_UnknownTierRefused ==
    [][\A c \in Checkouts :
          /\ (cp'[c].pc = "gateway" /\ cp[c].pc # "gateway")
                => \A k \in 1..Len(cp'[c].order) : cp'[c].order[k].id \in TierIds
          /\ (/\ cp[c].pc = "check"
              /\ cp[c].order[cp[c].item].id \notin TierIds
              /\ cp'[c] # cp[c])
                => (cp'[c].status = 400 /\ mollie' = mollie)]_vars

\* C22: the status gates fulfilment: a ticket is issued for a tier only while
\* the tier's status is available, so a tier an admin closed after the
\* checkout gets no new tickets when the payment is confirmed.
C22_IssuedOnlyWhileAvailable ==
    [][\A c \in DOMAIN issuedTickets' \ DOMAIN issuedTickets :
          tickets[c[1]].status = "available"]_vars

TiersOf(o) == {o[k].id : k \in 1..Len(o)}

IssuedOf(p, t) ==
    {c \in DOMAIN issuedTickets : issuedTickets[c].paymentId = p /\ c[1] = t}

\* the order of the paid payment p: the pending order, or the metadata the
\* Prisma versions gave the gateway
OrderOf(p) == IF snapshot = "json"
              THEN (IF p \in DOMAIN pendingOrders THEN pendingOrders[p] ELSE <<>>)
              ELSE mollie[p].metadata

\* C26: fulfilment is all-or-nothing per line item: when a callback, the only
\* one that has run, ends because a store write or generateTicketPDF failed,
\* then for every line item of its order either none of its tickets is in the
\* store and the tier's sold count is what it was, or all of them are.
C26_AllOrNothingPerItem ==
    \A w \in Webhooks :
        (/\ wh[w].result = "Error"
         /\ wh[w].at \in {"update", "create", "pdf"}
         /\ \A x \in Webhooks \ {w} : wh[x].pc = "idle")
            => \A k \in 1..Len(OrderOf(wh[w].pay)) :
                  LET it == OrderOf(wh[w].pay)[k]
                      n == Cardinality(IssuedOf(wh[w].pay, it.id))
                  IN \/ n = 0 /\ tickets[it.id].sold = SeedTickets[it.id].sold
                     \/ n = it.quantity

RECURSIVE QuantityOf(_, _)
\* the number of tickets of tier t the order o asks for
QuantityOf(o, t) ==
    IF o = <<>> THEN 0
    ELSE (IF Head(o).id = t THEN Head(o).quantity ELSE 0) + QuantityOf(Tail(o), t)

\* C27: when the fulfilment of a paid order completes, the issued tickets that
\* carry its payment are, tier by tier, as many as the quantities of the
\* order's line items add up to (for a callback that ran alone, so that no
\* other callback's tickets or writes are counted).
C27_IssuedMatchesOrder ==
    [][\A w \in Webhooks :
          (/\ wh[w].result # "Fulfilled"
           /\ wh'[w].result = "Fulfilled"
           /\ \A x \in Webhooks \ {w} : wh[x].pc = "idle")
              => \A t \in TierIds :
                    Cardinality({c \in DOMAIN issuedTickets' :
                                    /\ issuedTickets'[c].paymentId = wh[w].pay
                                    /\ c[1] = t})
                        = QuantityOf(wh[w].order, t)]_vars

\* callback w is for a payment without a pending order: part_004 looks the
\* order up in pendingOrders.json when the payment is fetched; the Prisma
\* versions keep no pending orders, there it is a payment the gateway never
\* made for create-payment or one whose fulfilment has completed
NoPendingOrder(w) ==
    IF snapshot = "json"
    THEN wh[w].pc = "fetch" /\ wh[w].pay \notin DOMAIN pendingOrders
    ELSE wh[w].pc # "idle" /\ (wh[w].redelivery \/ mollie[wh[w].pay].status = "none")

\* C28: a callback for a payment that has no pending order issues no tickets
\* and changes no state: no step of its handler changes the sold counts, the
\* issued tickets or the pending orders, and it makes no ticket.
C28_NoOrderNoChange ==
    [][\A w \in Webhooks :
          (NoPendingOrder(w) /\ wh'[w] # wh[w] /\ wh'[w].result # "Crashed")
              => /\ UNCHANGED <<tickets, issuedTickets, usedTickets, pendingOrders>>
                 /\ wh'[w].made = {}
                 /\ wh'[w].pc \notin {"create", "pdf", "email"}]_vars

\* C29: the admin guard ends the request: an update-ticket request whose
\* password is missing or wrong, which is answered 403, leaves the price, the
\* capacity and the status of every tier as they were.
C29_GuardStopsUpdate ==
    [][(edits' # edits /\ edits'[Len(edits')] = 403) => tickets' = tickets]_vars

\* C30: an admin edit never writes a sold count: after every update-ticket
\* request the sold count of every tier is what it was before.
C30_EditKeepsSold ==
    [][(edits' # edits)
          => \A t \in TierIds : tickets'[t].sold = tickets[t].sold]_vars

\* an accepted edit changed a tier that has tickets sold
C30_EditedSoldTier ==
    /\ edits # <<>>
    /\ edits[Len(edits)] = 200
    /\ \E t \in TierIds :
          /\ tickets[t].sold > 0
          /\ tickets[t] # SeedTickets[t]
          /\ \/ tickets[t].max # SeedTickets[t].max
             \/ tickets[t].status # SeedTickets[t].status
             \/ tickets[t].price # SeedTickets[t].price

\* no payment callback is in progress
NoCallbackRunning == \A w \in Webhooks : wh[w].pc \in {"idle", "done"}

\* C31: whenever no payment callback is in progress, the sold count of every
\* tier is its initial sold count plus the number of tickets issued for it: no
\* units without tickets and no tickets without units.
C31_SoldMatchesIssued ==
    NoCallbackRunning
        => \A t \in TierIds :
              tickets[t].sold = SeedTickets[t].sold + Cardinality(IssuedFor(t))

\* no callback for payment p has written its tickets yet
Unfulfilled(p) ==
    \A w \in Webhooks : wh[w].pay = p => ~(Stored(w) \/ wh[w].at = "email")

SameButPrice(o1, o2) ==
    /\ Len(o1) = Len(o2)
    /\ \A k \in 1..Len(o1) : o1[k].id = o2[k].id /\ o1[k].quantity = o2[k].quantity

\* C33: the amount asked of the gateway depends only on the stored prices and
\* the quantities: two create-payment requests that are equal but for the
\* price fields the client sent, and met the same stored prices, have asked
\* the same amount.
C33_AmountIgnoresClientPrice ==
    \A c1, c2 \in Checkouts :
        (/\ cp[c1].pc = "gateway"
         /\ cp[c2].pc = "gateway"
         /\ SameButPrice(cp[c1].order, cp[c2].order)
         /\ cp[c1].read = cp[c2].read)
            => mollie[cp[c1].pay].amount = mollie[cp[c2].pay].amount

\* C34: create-payment accepts only line items with a quantity of 1 or more: a
\* request with a smaller quantity never gets to the gateway, so no payment
\* the gateway knows is for such a line item.
C34_QuantityAtLeastOne ==
    /\ \A c \in Checkouts :
          cp[c].pc = "gateway"
              => \A k \in 1..Len(cp[c].order) : cp[c].order[k].quantity >= 1
    /\ \A p \in PaymentIds :
          \A k \in 1..Len(mollie[p].metadata) : mollie[p].metadata[k].quantity >= 1

\* C35: a create-payment request whose line items all pass the availability
\* check, and whose payment the gateway creates, is answered with the checkout
\* URL (200) and not with a server error: the only other answer a request gets
\* is the 400 of a line item that did not pass.
C35_PassingRequestGetsUrl ==
    \A c \in Checkouts : cp[c].pc = "done" => cp[c].status \in {200, 400}

====
